---- MODULE Spec2Model ----
(***************************************************************************)
(* Model of src/server/scripts/generate_maps.py: the map generation        *)
(* worker (main), its resize step, and the per-kind generators.            *)
(*                                                                         *)
(* Python floats are IEEE-754 binary64.  They are modelled exactly: a      *)
(* non-negative float is a record [hi, mid, lo, e] standing for            *)
(* (hi * 2^36 + mid * 2^18 + lo) * 2^e, a significand of at most 53 bits   *)
(* in three limbs of 18 bits.  Every arithmetic operation computes the     *)
(* exact result and rounds it to 53 bits, ties to even.  The values of     *)
(* this program stay far from the subnormal and overflow ranges, so        *)
(* exponents are unbounded integers here.                                  *)
(***************************************************************************)
EXTENDS Integers, Sequences, FiniteSets

VARIABLES
    DEPTH_AVAILABLE,      \* module flag, set at import (lines 33-51)
    MEDIAPIPE_AVAILABLE,  \* module flag, set at import (lines 34, 53-57)
    input_file,           \* the file at args.input: Undecodable or an image's shape
    max_dimension,        \* args.max_dimension
    requested_maps,       \* the stripped tokens of args.maps, in order
    image,                \* main's image: its shape [w, h]
    h, w,                 \* main's h, w (Unset before the image is loaded)
    new_w, new_h,         \* main's new_w, new_h (Unset until the resize branch runs)
    results,              \* main's results dict
    depth_map,            \* main's depth_map: NoDepth or the retained depth map
    idx,                  \* position of the for loop in requested_maps
    pc,                   \* position of main
    files,                \* files written to the output directory
    stdout,               \* what was printed to stdout
    stderr,               \* the warnings printed to stderr
    exit_status,          \* process exit status (Running until the process ends)
    outcome,              \* history: per attempted token "ok", "failed" or "skipped"
    depth_calls,          \* history: who invoked compute_depth_map, in order
    normals_used,         \* history: per normals computation, the depth map used
    ret                   \* the value returned by a generator called on its own

vars == <<DEPTH_AVAILABLE, MEDIAPIPE_AVAILABLE, input_file, max_dimension,
          requested_maps, image, h, w, new_w, new_h, results, depth_map, idx,
          pc, files, stdout, stderr, exit_status, outcome, depth_calls,
          normals_used, ret>>

None == "None"

\* an integer local that is not assigned yet
Unset == -1

\* the process has not exited
Running == -1

\* a file cv2.imread cannot decode (it returns None)
Undecodable == [decodable |-> FALSE, w |-> 0, h |-> 0]

\* image is None
NoImage == [w |-> 0, h |-> 0]

\* depth_map is None
NoDepth == [id |-> 0, map |-> None]

\* results is not built yet
NoResults == [maps |-> <<>>, sourceWidth |-> Unset, sourceHeight |-> Unset,
              inputFilename |-> None]

\* no generator has returned
NoRet == [fn |-> None]

Max(a, b) == IF a >= b THEN a ELSE b

Min(a, b) == IF a <= b THEN a ELSE b

(* ---------------- binary64 arithmetic --------------------------------- *)

\* number of bits of n, for 0 <= n < 2^30
BitLen(n) == CHOOSE k \in 0..30 : n < 2^k /\ (k = 0 \/ 2^(k - 1) <= n)

DblZero == [hi |-> 0, mid |-> 0, lo |-> 0, e |-> 0]

\* 1.0
DblOne == [hi |-> 2^16, mid |-> 0, lo |-> 0, e |-> -52]

\* The exact value (p2 * 2^36 + t1 * 2^18 + t0) * 2^e (plus, when sticky, a
\* non-zero amount below the last bit) rounded to a significand of 53 bits,
\* round-half-to-even.  t1, t0 < 2^18 and p2 < 2^30; sticky comes with a
\* value of more than 53 bits only.
Round53(p2, t1, t0, e, sticky) ==
    LET s == Max(0, BitLen(p2) - 17)
    IN  IF s = 0 THEN [hi |-> p2, mid |-> t1, lo |-> t0, e |-> e]
        ELSE LET q    == 2^s
                 up   == 2^(18 - s)
                 khi  == p2 \div q
                 kmid == (p2 % q) * up + t1 \div q
                 klo  == (t1 % q) * up + t0 \div q
                 drop == t0 % q
                 half == 2^(s - 1)
                 rnd  == drop \div half
                 st   == sticky \/ drop % half # 0
                 inc  == rnd = 1 /\ (st \/ klo % 2 = 1)
                 lo1  == IF inc THEN klo + 1 ELSE klo
                 mid1 == kmid + lo1 \div 2^18
                 hi1  == khi + mid1 \div 2^18
             IN  IF hi1 = 2^17
                 THEN [hi |-> 2^16, mid |-> 0, lo |-> 0, e |-> e + s + 1]
                 ELSE [hi |-> hi1, mid |-> mid1 % 2^18, lo |-> lo1 % 2^18,
                       e |-> e + s]

\* a / b for naturals 0 <= a < 2^12, 1 <= b < 2^12: Python's int / int, and
\* the value of a decimal literal a/b (0.33 is 33/100), both correctly
\* rounded.  n / d is the quotient scaled into [1, 2); its leading 1 and 53
\* fraction bits are divided out 17, 18 and 18 bits at a time.
DblDivInt(a, b) ==
    IF a = 0 THEN DblZero
    ELSE LET up == IF a >= b
                   THEN CHOOSE s \in 0..12 : b * 2^s <= a /\ a < b * 2^(s + 1)
                   ELSE 0
             dn == IF a >= b THEN 0
                   ELSE CHOOSE s \in 1..12 : a * 2^s >= b /\ a * 2^(s - 1) < b
             n  == a * 2^dn
             d  == b * 2^up
             r0 == n - d
             f1 == (r0 * 2^17) \div d
             r1 == (r0 * 2^17) % d
             f2 == (r1 * 2^18) \div d
             r2 == (r1 * 2^18) % d
             f3 == (r2 * 2^18) \div d
             r3 == (r2 * 2^18) % d
         IN  Round53(2^17 + f1, f2, f3, (up - dn) - 53, r3 # 0)

\* the exact significand of x times a natural k < 2^12
MulLimbs(x, k) ==
    LET p0 == x.lo * k
        p1 == x.mid * k + p0 \div 2^18
        p2 == x.hi * k + p1 \div 2^18
    IN  [hi |-> p2, mid |-> p1 % 2^18, lo |-> p0 % 2^18]

\* x * (k * 2^ke) for a float x and a natural k < 2^12
DblMulSmall(x, k, ke) ==
    IF k = 0 \/ x = DblZero THEN DblZero
    ELSE LET p == MulLimbs(x, k)
         IN  Round53(p.hi, p.mid, p.lo, x.e + ke, FALSE)

\* x + y, for exponents that differ by at most 12
DblAdd(x, y) ==
    LET e0 == Min(x.e, y.e)
        a  == MulLimbs(x, 2^(x.e - e0))
        b  == MulLimbs(y, 2^(y.e - e0))
        s0 == a.lo + b.lo
        s1 == a.mid + b.mid + s0 \div 2^18
        s2 == a.hi + b.hi + s1 \div 2^18
    IN  Round53(s2, s1 % 2^18, s0 % 2^18, e0, FALSE)

\* x - y for x >= y, for exponents that differ by at most 12
DblSub(x, y) ==
    LET e0 == Min(x.e, y.e)
        a  == MulLimbs(x, 2^(x.e - e0))
        b  == MulLimbs(y, 2^(y.e - e0))
        d0 == a.lo - b.lo
        b0 == IF d0 < 0 THEN 1 ELSE 0
        d1 == a.mid - b.mid - b0
        b1 == IF d1 < 0 THEN 1 ELSE 0
        d2 == a.hi - b.hi - b1
    IN  Round53(d2, d1 + b1 * 2^18, d0 + b0 * 2^18, e0, FALSE)

\* int(x) for x >= 0: truncation
DblToInt(x) ==
    IF x.hi = 0 /\ x.mid = 0 /\ x.lo = 0 THEN 0
    ELSE IF x.e >= 0 THEN (x.hi * 2^36 + x.mid * 2^18 + x.lo) * 2^(x.e)
    ELSE LET s == -x.e
         IN  IF s >= 53 THEN 0
             ELSE IF s >= 36 THEN x.hi \div 2^(s - 36)
             ELSE IF s >= 18 THEN x.hi * 2^(36 - s) + x.mid \div 2^(s - 18)
             ELSE x.hi * 2^(36 - s) + x.mid * 2^(18 - s) + x.lo \div 2^s

(* ---------------- bounds ----------------------------------------------- *)

MaxSide == 2        \* main: input sides and max_dimension are in 1..MaxSide
MaxReq == 2         \* main: at most MaxReq requested tokens
MaxInstances == 2   \* at most MaxInstances detected faces or hands
MaxResizeW == 22    \* the resize step on its own: widths and max_dimension
MaxResizeH == 4     \* the resize step on its own: heights
MaxGenSide == 11    \* the generators on their own: image sides

(* ---------------- the generators ---------------------------------------- *)
(* A map's pixels are abstracted to the set of distinct intensities it      *)
(* holds.  What a library call returns (the model's inference, Canny's      *)
(* edge pixels, the detected landmarks, GrabCut's labels) is an input of    *)
(* the call, drawn from the values the library documents.                   *)

MlModel == "depth-anything-v2-vits"

SimpleModel == "simple-laplacian"

Raised == [raised |-> TRUE]

\* compute_depth_map_ml: raises without the capability; otherwise the
\* outcome of loading the model and running the inference (torch).
compute_depth_map_ml(avail, torch) ==
    IF ~avail THEN Raised
    ELSE IF torch = "raise" THEN Raised
    ELSE [raised |-> FALSE, map |-> "depth_anything_v2"]

compute_depth_map_simple == [raised |-> FALSE, map |-> "laplacian"]

\* a compute_depth_map without the try/except around the learned path
compute_depth_map_noexcept(avail, torch) ==
    IF avail
    THEN LET ml == compute_depth_map_ml(avail, torch)
         IN  IF ml.raised THEN [raised |-> TRUE, map |-> None, model |-> None,
                                warned |-> FALSE]
             ELSE [raised |-> FALSE, map |-> ml.map, model |-> MlModel,
                   warned |-> FALSE]
    ELSE [raised |-> FALSE, map |-> compute_depth_map_simple.map,
          model |-> SimpleModel, warned |-> FALSE]

\* compute_depth_map: (depth, method identifier); warned: the fallback
\* warning was printed to stderr
compute_depth_map(avail, torch) ==
    LET ml == IF avail THEN compute_depth_map_ml(avail, torch) ELSE Raised
    IN  IF avail /\ ~ml.raised
        THEN [raised |-> FALSE, map |-> ml.map, model |-> MlModel,
              warned |-> FALSE]
        ELSE [raised |-> FALSE, map |-> compute_depth_map_simple.map,
              model |-> SimpleModel, warned |-> avail]

\* compute_normals_from_depth: a pure function of the depth map
compute_normals_from_depth(depth) == [raised |-> FALSE, from |-> depth.id]

\* sigma = 0.33
Sigma == DblDivInt(33, 100)

\* median2 is twice the median: np.median of an even number of pixels is the
\* mean of the two middle values, so the median is a multiple of 1/2.
\* (1.0 - sigma) * median, truncated
LowProduct(median2) == DblToInt(DblMulSmall(DblSub(DblOne, Sigma), median2, -1))

\* (1.0 + sigma) * median, truncated
HighProduct(median2) == DblToInt(DblMulSmall(DblAdd(DblOne, Sigma), median2, -1))

\* low = int(max(0, (1.0 - sigma) * median))
CannyLow(median2) == Max(0, LowProduct(median2))

\* a high threshold without the clamp at 255
CannyHighUnclamped(median2) == HighProduct(median2)

\* high = int(min(255, (1.0 + sigma) * median))
CannyHigh(median2) == Min(255, HighProduct(median2))

\* compute_edges: Canny marks edge pixels 255 and the others 0
compute_edges(median2, canny) ==
    [raised |-> FALSE, median2 |-> median2, low |-> CannyLow(median2),
     high |-> CannyHigh(median2), values |-> canny]

\* cv2.fillConvexPoly(mask, hull, 255): cover says how much of the mask the
\* hull covers ("none": the hull lies outside the image)
FillConvexPoly(values, cover) ==
    IF cover = "none" THEN values
    ELSE IF cover = "all" THEN {255}
    ELSE values \cup {255}

\* cv2.dilate: every pixel becomes the maximum of its neighbourhood, which
\* may leave no background pixel
Dilate(values, fillsAll) ==
    IF fillsAll /\ 255 \in values THEN {255} ELSE values

\* cv2.erode: the minimum of the neighbourhood, which may leave no foreground
Erode(values, removesAll) ==
    IF removesAll /\ 0 \in values THEN {0} ELSE values

RECURSIVE FillAll(_, _)
FillAll(values, covers) ==
    IF covers = <<>> THEN values
    ELSE FillAll(FillConvexPoly(values, Head(covers)), Tail(covers))

\* compute_face_mask and compute_hands_mask (they differ in the detector and
\* in the dilation kernel): det is the detector's outcome, an exception or
\* the cover of each detected instance's hull
RegionMask(avail, det, fillsAll) ==
    IF ~avail THEN Raised
    ELSE IF det.raised THEN Raised
    ELSE [raised |-> FALSE, instances |-> Len(det.covers),
          values |-> Dilate(FillAll({0}, det.covers), fillsAll)]

compute_face_mask(avail, det, fillsAll) == RegionMask(avail, det, fillsAll)

compute_hands_mask(avail, det, fillsAll) == RegionMask(avail, det, fillsAll)

\* the literal 0.05
Lit005 == DblDivInt(5, 100)

\* margin = max(10, int(dim * 0.05))
Margin(dim) == Max(10, DblToInt(DblMulSmall(Lit005, dim, 0)))

\* rect = (margin_x, margin_y, max(1, w - 2 * margin_x), max(1, h - 2 * margin_y))
InitRect(hh, ww) ==
    [x |-> Margin(ww), y |-> Margin(hh),
     width |-> Max(1, ww - 2 * Margin(ww)),
     height |-> Max(1, hh - 2 * Margin(hh))]

\* cv2.grabCut clips the rectangle to the image and needs a pixel in it
RectUsable(rect, hh, ww) == rect.x < ww /\ rect.y < hh

\* a conversion that returns the labels as they are
BinarizeRaw(labels) == labels

\* np.where(is_fg, 255, 0) with is_fg = (mask == GC_FGD) | (mask == GC_PR_FGD)
Binarize(labels) ==
    {255 : l \in labels \cap {1, 3}} \cup {0 : l \in labels \cap {0, 2}}

\* MORPH_OPEN: erode then dilate
MorphOpen(values, removesAll) == Dilate(Erode(values, removesAll), FALSE)

\* MORPH_CLOSE: dilate then erode
MorphClose(values, fillsAll) == Erode(Dilate(values, fillsAll), FALSE)

\* compute_segmentation_mask: gc is GrabCut's outcome, an exception or the
\* set of labels (0..3) its mask holds
compute_segmentation_mask(hh, ww, gc, removesAll, fillsAll) ==
    IF hh <= 2 \/ ww <= 2
    THEN [raised |-> FALSE, cut |-> FALSE, rect |-> None, values |-> {0}]
    ELSE LET rect == InitRect(hh, ww)
         IN  IF ~RectUsable(rect, hh, ww) \/ gc.raised
             THEN [raised |-> TRUE, cut |-> TRUE, rect |-> rect, values |-> {}]
             ELSE [raised |-> FALSE, cut |-> TRUE, rect |-> rect,
                   values |-> MorphClose(MorphOpen(Binarize(gc.labels), removesAll),
                                         fillsAll)]

(* ---------------- the inputs of the library calls ----------------------- *)

TorchOutcomes == {"ok", "raise"}

\* Canny marks edge pixels 255 and the others 0
CannyOutputs == {{0}, {0, 255}, {255}}

\* twice the median of hh * ww pixels of 0..255
Medians2(hh, ww) == {k \in 0..510 : k % 2 = 0 \/ (hh * ww) % 2 = 0}

Covers == {"none", "part", "all"}

\* at most MaxInstances detected instances (max_num_faces, max_num_hands)
Detections ==
    {[raised |-> TRUE, covers |-> <<>>]} \cup
    {[raised |-> FALSE, covers |-> c] :
        c \in UNION {[1..n -> Covers] : n \in 0..MaxInstances}}

\* GrabCut's mask: labels 0..3, at least one pixel
GrabCutOutcomes ==
    {[raised |-> TRUE, labels |-> {}]} \cup
    {[raised |-> FALSE, labels |-> l] : l \in (SUBSET {0, 1, 2, 3}) \ {{}}}

(* ---------------- main: the resize step (lines 340-346) ---------------- *)

\* max(h, w) > args.max_dimension
NeedsResize(hh, ww, maxdim) == Max(hh, ww) > maxdim

\* a scale taken from the shorter side
ResizeDimsShort(hh, ww, maxdim) ==
    LET scale == DblDivInt(maxdim, Min(hh, ww))
    IN  [w |-> DblToInt(DblMulSmall(scale, ww, 0)),
         h |-> DblToInt(DblMulSmall(scale, hh, 0))]

\* scale = args.max_dimension / max(h, w); new_w, new_h = int(w * scale), int(h * scale)
ResizeDims(hh, ww, maxdim) ==
    LET scale == DblDivInt(maxdim, Max(hh, ww))
    IN  [w |-> DblToInt(DblMulSmall(scale, ww, 0)),
         h |-> DblToInt(DblMulSmall(scale, hh, 0))]

\* cv2.resize raises when the target size has a side that is not positive
ResizeRaises(nw, nh) == nw <= 0 \/ nh <= 0

(* ---------------- main: the records (lines 367-437) -------------------- *)
(* generatedAt, the wall-clock time of the append, is left out.            *)

Kinds == {"depth", "normals", "edges", "segmentation", "faceMask", "handsMask"}

\* a token that names no kind
Tokens == Kinds \cup {"unknownKind"}

DepthRecord(ww, hh, model) ==
    [kind |-> "depth", filename |-> "depth.png", width |-> ww, height |-> hh,
     modelUsed |-> model]

NormalsRecord(ww, hh) ==
    [kind |-> "normals", filename |-> "normals.png", width |-> ww,
     height |-> hh, modelUsed |-> "sobel-from-depth"]

EdgesRecord(ww, hh) ==
    [kind |-> "edges", filename |-> "edges.png", width |-> ww, height |-> hh,
     modelUsed |-> "canny-auto"]

SegmentationRecord(ww, hh) ==
    [kind |-> "segmentation", filename |-> "segmentation.png", width |-> ww,
     height |-> hh, modelUsed |-> "opencv-grabcut"]

FaceMaskRecord(ww, hh) ==
    [kind |-> "faceMask", filename |-> "faceMask.png", width |-> ww,
     height |-> hh, modelUsed |-> "mediapipe-face-mesh"]

HandsMaskRecord(ww, hh) ==
    [kind |-> "handsMask", filename |-> "handsMask.png", width |-> ww,
     height |-> hh, modelUsed |-> "mediapipe-hands"]

\* a list insert at the front
PrependRecord(maps, rec) == <<rec>> \o maps

\* results['maps'].append(rec)
AppendRecord(maps, rec) == Append(maps, rec)

\* a normals branch that also reports the depth map it used
NormalsAppendWithDepth(maps, ww, hh) ==
    AppendRecord(AppendRecord(maps, DepthRecord(ww, hh, SimpleModel)),
                 NormalsRecord(ww, hh))

\* the normals branch's append (lines 382-389)
NormalsAppend(maps, ww, hh) == AppendRecord(maps, NormalsRecord(ww, hh))

\* a normals branch that computes the depth map every time
NeedsDepthAlways(dm) == TRUE

\* if depth_map is None (line 378)
NeedsDepth(dm) == dm = NoDepth

\* an except clause that gives up the remaining kinds
AfterFailureStop(i, n) == n + 1

\* except Exception: the warning is printed and the for loop goes on with
\* the next token (lines 439-440)
AfterFailure(i, n) == i + 1

(* ---------------- main (lines 320-443) ---------------------------------- *)

\* The loop is at a token of kind k.
AtToken(k) ==
    /\ pc = "loop"
    /\ idx <= Len(requested_maps)
    /\ requested_maps[idx] = k

\* the per-kind try block completed: its record is appended
Succeed(rec_maps, file) ==
    /\ results' = [results EXCEPT !.maps = rec_maps]
    /\ files' = files \cup {file}
    /\ outcome' = Append(outcome, "ok")
    /\ idx' = idx + 1
    /\ pc' = "loop"

\* the per-kind try block raised: except Exception prints the warning
Fail(kind) ==
    /\ stderr' = Append(stderr, <<"Failed to generate", kind>>)
    /\ outcome' = Append(outcome, "failed")
    /\ idx' = AfterFailure(idx, Len(requested_maps))
    /\ pc' = "loop"
    /\ UNCHANGED <<results, files>>

Fixed == <<DEPTH_AVAILABLE, MEDIAPIPE_AVAILABLE, input_file, max_dimension,
           requested_maps, ret>>

\* image = cv2.imread(args.input); if image is None: print the error payload
\* and sys.exit(1) (lines 335-338); h, w = image.shape[:2] (line 341)
LoadImage ==
    /\ pc = "load"
    /\ IF input_file = Undecodable
       THEN /\ stdout' = <<"error">>
            /\ exit_status' = 1
            /\ pc' = "exit1"
            /\ UNCHANGED <<image, h, w>>
       ELSE /\ image' = [w |-> input_file.w, h |-> input_file.h]
            /\ h' = input_file.h
            /\ w' = input_file.w
            /\ pc' = "resize"
            /\ UNCHANGED <<stdout, exit_status>>
    /\ UNCHANGED <<Fixed, new_w, new_h, results, depth_map, idx, files, stderr,
                   outcome, depth_calls, normals_used>>

\* lines 342-346: an exception of cv2.resize is caught nowhere
ResizeImage ==
    /\ pc = "resize"
    /\ IF NeedsResize(h, w, max_dimension)
       THEN LET n == ResizeDims(h, w, max_dimension)
            IN  /\ new_w' = n.w
                /\ new_h' = n.h
                /\ IF ResizeRaises(n.w, n.h)
                   THEN /\ pc' = "crashed"
                        /\ exit_status' = 1
                        /\ UNCHANGED <<image, h, w>>
                   ELSE /\ image' = [w |-> n.w, h |-> n.h]
                        /\ h' = n.h
                        /\ w' = n.w
                        /\ pc' = "save"
                        /\ UNCHANGED exit_status
       ELSE /\ pc' = "save"
            /\ UNCHANGED <<image, h, w, new_w, new_h, exit_status>>
    /\ UNCHANGED <<Fixed, results, depth_map, idx, files, stdout, stderr,
                   outcome, depth_calls, normals_used>>

\* lines 349-359: the resized input is saved, results is built, depth_map = None
SaveInput ==
    /\ pc = "save"
    /\ files' = files \cup {"input.png"}
    /\ results' = [maps |-> <<>>, sourceWidth |-> w, sourceHeight |-> h,
                   inputFilename |-> "input.png"]
    /\ depth_map' = NoDepth
    /\ idx' = 1
    /\ pc' = "loop"
    /\ UNCHANGED <<Fixed, image, h, w, new_w, new_h, stdout, stderr,
                   exit_status, outcome, depth_calls, normals_used>>

\* lines 364-374
GenDepth ==
    /\ AtToken("depth")
    /\ \E r \in {compute_depth_map(DEPTH_AVAILABLE, torch) :
                     torch \in TorchOutcomes} :
             IF r.raised
             THEN /\ Fail("depth")
                  /\ UNCHANGED <<depth_map, depth_calls>>
             ELSE /\ depth_map' = [id |-> Len(depth_calls) + 1, map |-> r.map]
                  /\ depth_calls' = Append(depth_calls, "depth")
                  /\ Succeed(AppendRecord(results.maps,
                                          DepthRecord(w, h, r.model)), "depth.png")
                  /\ stderr' = IF r.warned
                               THEN Append(stderr, <<"ML depth failed">>)
                               ELSE stderr
    /\ UNCHANGED <<Fixed, image, h, w, new_w, new_h, stdout, exit_status,
                   normals_used>>

\* lines 376-389
GenNormals ==
    /\ AtToken("normals")
    /\ \E r \in {compute_depth_map(DEPTH_AVAILABLE, torch) :
                     torch \in TorchOutcomes} :
         LET need == NeedsDepth(depth_map)
             dm   == IF need
                     THEN [id |-> Len(depth_calls) + 1, map |-> r.map]
                     ELSE depth_map
         IN  IF need /\ r.raised
             THEN /\ Fail("normals")
                  /\ UNCHANGED <<depth_map, depth_calls, normals_used>>
             ELSE /\ depth_map' = dm
                  /\ depth_calls' = IF need THEN Append(depth_calls, "normals")
                                    ELSE depth_calls
                  /\ normals_used' =
                        Append(normals_used,
                               [depth |-> compute_normals_from_depth(dm).from,
                                computed |-> Len(depth_calls')])
                  /\ Succeed(NormalsAppend(results.maps, w, h), "normals.png")
                  /\ stderr' = IF need /\ r.warned
                               THEN Append(stderr, <<"ML depth failed">>)
                               ELSE stderr
    /\ UNCHANGED <<Fixed, image, h, w, new_w, new_h, stdout, exit_status>>

\* lines 391-401: compute_edges has no raising path, whatever the median
\* and the edge pixels are, and its map goes to edges.png only
GenEdges ==
    /\ AtToken("edges")
    /\ Succeed(AppendRecord(results.maps, EdgesRecord(w, h)), "edges.png")
    /\ UNCHANGED stderr
    /\ UNCHANGED <<Fixed, image, h, w, new_w, new_h, depth_map, stdout,
                   exit_status, depth_calls, normals_used>>

\* lines 403-413
GenSegmentation ==
    /\ AtToken("segmentation")
    /\ \E raised \in {compute_segmentation_mask(h, w, gc, removesAll,
                                                   fillsAll).raised :
                          gc \in GrabCutOutcomes, removesAll \in BOOLEAN,
                          fillsAll \in BOOLEAN} :
             IF raised
             THEN Fail("segmentation")
             ELSE /\ Succeed(AppendRecord(results.maps,
                                          SegmentationRecord(w, h)),
                             "segmentation.png")
                  /\ UNCHANGED stderr
    /\ UNCHANGED <<Fixed, image, h, w, new_w, new_h, depth_map, stdout,
                   exit_status, depth_calls, normals_used>>

\* lines 415-425
GenFaceMask ==
    /\ AtToken("faceMask")
    /\ \E raised \in {compute_face_mask(MEDIAPIPE_AVAILABLE, det,
                                           fillsAll).raised :
                          det \in Detections, fillsAll \in BOOLEAN} :
             IF raised
             THEN Fail("faceMask")
             ELSE /\ Succeed(AppendRecord(results.maps, FaceMaskRecord(w, h)),
                             "faceMask.png")
                  /\ UNCHANGED stderr
    /\ UNCHANGED <<Fixed, image, h, w, new_w, new_h, depth_map, stdout,
                   exit_status, depth_calls, normals_used>>

\* lines 427-437
GenHandsMask ==
    /\ AtToken("handsMask")
    /\ \E raised \in {compute_hands_mask(MEDIAPIPE_AVAILABLE, det,
                                            fillsAll).raised :
                          det \in Detections, fillsAll \in BOOLEAN} :
             IF raised
             THEN Fail("handsMask")
             ELSE /\ Succeed(AppendRecord(results.maps, HandsMaskRecord(w, h)),
                             "handsMask.png")
                  /\ UNCHANGED stderr
    /\ UNCHANGED <<Fixed, image, h, w, new_w, new_h, depth_map, stdout,
                   exit_status, depth_calls, normals_used>>

\* a token that matches no branch of the if/elif chain: nothing happens
SkipUnknown ==
    /\ pc = "loop"
    /\ idx <= Len(requested_maps)
    /\ requested_maps[idx] \notin Kinds
    /\ outcome' = Append(outcome, "skipped")
    /\ idx' = idx + 1
    /\ UNCHANGED <<Fixed, image, h, w, new_w, new_h, results, depth_map, pc,
                   files, stdout, stderr, exit_status, depth_calls, normals_used>>

\* print(json.dumps(results)) (line 443), and main returns
PrintResults ==
    /\ pc = "loop"
    /\ idx > Len(requested_maps)
    /\ stdout' = <<results>>
    /\ exit_status' = 0
    /\ pc' = "done"
    /\ UNCHANGED <<Fixed, image, h, w, new_w, new_h, results, depth_map, idx,
                   files, stderr, outcome, depth_calls, normals_used>>

RECURSIVE SeqsUpTo(_, _)
SeqsUpTo(S, n) ==
    IF n = 0 THEN {<<>>}
    ELSE LET shorter == SeqsUpTo(S, n - 1)
         IN  shorter \cup {Append(q, t) : q \in shorter, t \in S}

Shapes(maxw, maxh) == [decodable : {TRUE}, w : 1..maxw, h : 1..maxh]

\* the state when main starts: the flags are set, the arguments are parsed,
\* requested_maps is split (line 330: never empty)
InitMain(inputs, dims, requests) ==
    /\ DEPTH_AVAILABLE \in BOOLEAN
    /\ MEDIAPIPE_AVAILABLE \in BOOLEAN
    /\ input_file \in inputs
    /\ max_dimension \in dims
    /\ requested_maps \in requests
    /\ image = NoImage
    /\ h = Unset
    /\ w = Unset
    /\ new_w = Unset
    /\ new_h = Unset
    /\ results = NoResults
    /\ depth_map = NoDepth
    /\ idx = 0
    /\ pc = "load"
    /\ files = {}
    /\ stdout = <<>>
    /\ stderr = <<>>
    /\ exit_status = Running
    /\ outcome = <<>>
    /\ depth_calls = <<>>
    /\ normals_used = <<>>
    /\ ret = NoRet

Init ==
    InitMain({Undecodable} \cup Shapes(MaxSide, MaxSide), 1..MaxSide,
             SeqsUpTo(Tokens, MaxReq) \ {<<>>})

Next ==
    \/ LoadImage
    \/ ResizeImage
    \/ SaveInput
    \/ GenDepth
    \/ GenNormals
    \/ GenEdges
    \/ GenSegmentation
    \/ GenFaceMask
    \/ GenHandsMask
    \/ SkipUnknown
    \/ PrintResults

Spec == Init /\ [][Next]_vars

(* ---------------- the resize step on its own ---------------------------- *)

InitResize ==
    InitMain(Shapes(MaxResizeW, MaxResizeH), 1..MaxResizeW, {<<"edges">>})

NextResize ==
    \/ LoadImage
    \/ ResizeImage

SpecResize == InitResize /\ [][NextResize]_vars

(* ---------------- the generators on their own --------------------------- *)
(* Each generator is called on a loaded image; ret holds the inputs the     *)
(* libraries contributed and what the generator returned.                   *)

InitGen ==
    /\ DEPTH_AVAILABLE \in BOOLEAN
    /\ MEDIAPIPE_AVAILABLE \in BOOLEAN
    /\ input_file \in Shapes(MaxGenSide, MaxGenSide)
    /\ max_dimension = MaxGenSide
    /\ requested_maps = <<>>
    /\ image = [w |-> input_file.w, h |-> input_file.h]
    /\ h = input_file.h
    /\ w = input_file.w
    /\ pc = "call"
    /\ new_w = Unset
    /\ new_h = Unset
    /\ results = NoResults
    /\ depth_map = NoDepth
    /\ idx = 0
    /\ files = {}
    /\ stdout = <<>>
    /\ stderr = <<>>
    /\ exit_status = Running
    /\ outcome = <<>>
    /\ depth_calls = <<>>
    /\ normals_used = <<>>
    /\ ret = NoRet

Returns(fn, arg, out) ==
    /\ pc = "call"
    /\ pc' = "returned"
    /\ ret' = [fn |-> fn, arg |-> arg, out |-> out]
    /\ UNCHANGED <<DEPTH_AVAILABLE, MEDIAPIPE_AVAILABLE, input_file,
                   max_dimension, requested_maps, image, h, w, new_w, new_h,
                   results, depth_map, idx, files, stdout, stderr,
                   exit_status, outcome, depth_calls, normals_used>>

CallDepth ==
    /\ pc = "call"
    /\ \E torch \in TorchOutcomes :
           Returns("compute_depth_map", [torch |-> torch],
                   compute_depth_map(DEPTH_AVAILABLE, torch))

CallEdges ==
    /\ pc = "call"
    /\ \E median2 \in Medians2(image.h, image.w), canny \in CannyOutputs :
           Returns("compute_edges", [median2 |-> median2, canny |-> canny],
                   compute_edges(median2, canny))

CallFaceMask ==
    /\ pc = "call"
    /\ \E det \in Detections, fillsAll \in BOOLEAN :
           Returns("compute_face_mask", [det |-> det, fillsAll |-> fillsAll],
                   compute_face_mask(MEDIAPIPE_AVAILABLE, det, fillsAll))

CallHandsMask ==
    /\ pc = "call"
    /\ \E det \in Detections, fillsAll \in BOOLEAN :
           Returns("compute_hands_mask", [det |-> det, fillsAll |-> fillsAll],
                   compute_hands_mask(MEDIAPIPE_AVAILABLE, det, fillsAll))

CallSegmentation ==
    /\ pc = "call"
    /\ \E gc \in GrabCutOutcomes, removesAll \in BOOLEAN, fillsAll \in BOOLEAN :
           Returns("compute_segmentation_mask",
                   [gc |-> gc, removesAll |-> removesAll, fillsAll |-> fillsAll],
                   compute_segmentation_mask(image.h, image.w, gc, removesAll,
                                             fillsAll))

NextGen ==
    \/ CallDepth
    \/ CallEdges
    \/ CallFaceMask
    \/ CallHandsMask
    \/ CallSegmentation

SpecGen == InitGen /\ [][NextGen]_vars

(* ======================= the properties ================================= *)

KindsOf(maps) == [i \in 1..Len(maps) |-> maps[i].kind]

\* the tokens among the first n whose generation completed, in order
RECURSIVE Completed(_)
Completed(n) ==
    IF n = 0 THEN <<>>
    ELSE IF outcome[n] = "ok" THEN Append(Completed(n - 1), requested_maps[n])
    ELSE Completed(n - 1)

InLoop == pc \in {"loop", "done"}

HasRecord(kind) == \E i \in 1..Len(results.maps) : results.maps[i].kind = kind

Requested(kind) == \E j \in 1..Len(requested_maps) : requested_maps[j] = kind

\* the records a run that requests only this kind can yield for this image
SoloRecords(kind) ==
    IF kind = "depth"
    THEN {DepthRecord(w, h, MlModel), DepthRecord(w, h, SimpleModel)}
    ELSE IF kind = "normals" THEN {NormalsRecord(w, h)}
    ELSE IF kind = "edges" THEN {EdgesRecord(w, h)}
    ELSE IF kind = "segmentation" THEN {SegmentationRecord(w, h)}
    ELSE IF kind = "faceMask" THEN {FaceMaskRecord(w, h)}
    ELSE {HandsMaskRecord(w, h)}

Abs(n) == IF n < 0 THEN -n ELSE n

(* C1: a depth record is in the result set only if "depth" was requested;  *)
(* a normals record is present only once a depth map has been computed,    *)
(* and each normals map was derived from a depth map computed before it;   *)
(* a run that requests nothing but "normals" computes the depth map        *)
(* internally (one invocation, by the normals branch) and ends with        *)
(* normals records only.                                                   *)
C1_DepthRecordOnlyIfRequested ==
    InLoop =>
        /\ HasRecord("depth") => Requested("depth")
        /\ HasRecord("normals") =>
              /\ depth_map # NoDepth
              /\ depth_calls # <<>>
              /\ \A i \in 1..Len(normals_used) : normals_used[i].depth >= 1
        /\ (pc = "done" /\ \A j \in 1..Len(requested_maps) :
                               requested_maps[j] = "normals") =>
              /\ KindsOf(results.maps) = requested_maps
              /\ depth_calls = <<"normals">>
              /\ ~HasRecord("depth")

C1_Witness ==
    /\ pc = "done"
    /\ requested_maps = <<"normals">>
    /\ KindsOf(results.maps) = <<"normals">>
    /\ depth_calls = <<"normals">>

(* C2: a kind whose generation raises (the capability-unavailable error of *)
(* the mask generators included) does not end the run: every token before  *)
(* the loop position was attempted, the failing kind leaves a warning and   *)
(* no record, every kind that completed has its record, each record is the  *)
(* one a run requesting that kind alone yields, and the run ends with exit  *)
(* status 0; requesting depth and faceMask without the landmark detector    *)
(* yields exactly the depth record.                                         *)
C2_FailureIsolation ==
    InLoop =>
        /\ Len(outcome) = idx - 1
        /\ pc = "done" => Len(outcome) = Len(requested_maps) /\ exit_status = 0
        /\ \A k \in Kinds :
              Cardinality({i \in 1..Len(results.maps) : results.maps[i].kind = k})
                = Cardinality({j \in 1..Len(outcome) :
                                  outcome[j] = "ok" /\ requested_maps[j] = k})
        /\ \A i \in 1..Len(results.maps) :
              results.maps[i] \in SoloRecords(results.maps[i].kind)
        /\ \A j \in 1..Len(outcome) :
              outcome[j] = "failed" =>
                 \E s \in 1..Len(stderr) :
                    stderr[s] = <<"Failed to generate", requested_maps[j]>>
        /\ (pc = "done" /\ ~MEDIAPIPE_AVAILABLE
              /\ requested_maps = <<"depth", "faceMask">>) =>
              KindsOf(results.maps) = <<"depth">>

C2_Witness ==
    /\ pc = "done"
    /\ ~MEDIAPIPE_AVAILABLE
    /\ requested_maps = <<"faceMask", "depth">>
    /\ outcome = <<"failed", "ok">>
    /\ KindsOf(results.maps) = <<"depth">>
    /\ exit_status = 0

(* C3: the kinds of the records, in order, are the requested tokens whose  *)
(* generation completed, in request order; a token that names no kind is    *)
(* skipped without a record and without a warning; every record carries     *)
(* the working image's width and height, which are also the result set's.   *)
C3_RecordsFollowRequestOrder ==
    InLoop =>
        /\ KindsOf(results.maps) = Completed(Len(outcome))
        /\ \A j \in 1..Len(outcome) :
              /\ outcome[j] = "ok" => requested_maps[j] \in Kinds
              /\ requested_maps[j] \notin Kinds =>
                    /\ outcome[j] = "skipped"
                    /\ \A s \in 1..Len(stderr) :
                          stderr[s] # <<"Failed to generate", requested_maps[j]>>
        /\ \A i \in 1..Len(results.maps) :
              /\ results.maps[i].width = image.w
              /\ results.maps[i].height = image.h
        /\ results.sourceWidth = image.w
        /\ results.sourceHeight = image.h

C3_Witness ==
    /\ pc = "done"
    /\ requested_maps = <<"unknownKind", "edges">>
    /\ KindsOf(results.maps) = <<"edges">>
    /\ image.w < input_file.w

(* C4: the exit status is non-zero only if the input image cannot be       *)
(* decoded: no error other than the decode failure ends the process.        *)
C4_NonZeroExitOnlyIfUndecodable ==
    exit_status \notin {Running, 0} => ~input_file.decodable

(* C5 as stated: an image whose longer side exceeds max_dimension is       *)
(* resized to a longer side of exactly max_dimension with                   *)
(* |outW/outH - inW/inH| < 1e-2; any other image keeps its size.            *)
C5_ResizeExact ==
    pc = "save" =>
        IF Max(input_file.w, input_file.h) > max_dimension
        THEN /\ Max(w, h) = max_dimension
             /\ 100 * Abs(w * input_file.h - input_file.w * h) < h * input_file.h
        ELSE w = input_file.w /\ h = input_file.h

(* C5 as the code has it: for an image whose longer side L exceeds         *)
(* max_dimension M, each target side is int(side * (M / L)) in floating     *)
(* point, which is floor(side * M / L), or one less than it when            *)
(* side * M / L is a whole number; so the longer target side is M or M - 1  *)
(* and no side exceeds M; the resize fails exactly when a target side is    *)
(* 0; any other image keeps its size (nothing is upscaled).                 *)
C5_ResizeTruncates ==
    pc \in {"save", "crashed"} =>
        LET ll == Max(input_file.w, input_file.h)
            Near(n, s) == \/ n = (s * max_dimension) \div ll
                          \/ /\ n = ((s * max_dimension) \div ll) - 1
                             /\ (s * max_dimension) % ll = 0
        IN  IF ll > max_dimension
            THEN /\ Near(new_w, input_file.w)
                 /\ Near(new_h, input_file.h)
                 /\ Max(new_w, new_h) \in {max_dimension - 1, max_dimension}
                 /\ (pc = "crashed") = (new_w = 0 \/ new_h = 0)
                 /\ pc = "save" => w = new_w /\ h = new_h
            ELSE /\ pc = "save"
                 /\ w = input_file.w
                 /\ h = input_file.h

C5_Witness ==
    /\ pc = "save"
    /\ Max(input_file.w, input_file.h) > max_dimension
    /\ Max(w, h) = max_dimension - 1
    /\ h < w

MaskFns == {"compute_edges", "compute_face_mask", "compute_hands_mask",
            "compute_segmentation_mask"}

MaskProduced == ret.fn \in MaskFns /\ ~ret.out.raised

(* C6 as stated: every edge map, region mask and segmentation mask that is *)
(* produced holds exactly two distinct intensity values.                    *)
C6_ExactlyTwoValues ==
    MaskProduced => Cardinality(ret.out.values) = 2

(* C6 as the code has it: every edge map, region mask and segmentation     *)
(* mask that is produced holds no intensity other than 0 and 255 (one of    *)
(* them or both); the mask of a degenerate segmentation input and the mask  *)
(* of a detection that finds no instance hold the single value 0.           *)
C6_AtMostTwoValues ==
    MaskProduced =>
        /\ ret.out.values # {}
        /\ ret.out.values \subseteq {0, 255}
        /\ (ret.fn = "compute_segmentation_mask" /\ ~ret.out.cut) =>
              ret.out.values = {0}
        /\ (ret.fn \in {"compute_face_mask", "compute_hands_mask"}
              /\ ret.out.instances = 0) => ret.out.values = {0}

C6_Witness ==
    /\ ret.fn = "compute_segmentation_mask"
    /\ image.w <= 2
    /\ ~ret.out.raised
    /\ ~ret.out.cut
    /\ ret.out.values = {0}

(* C7: the depth estimator never raises; it returns the heuristic map with *)
(* 'simple-laplacian' when the capability is absent or the learned path     *)
(* raises, and the learned map with 'depth-anything-v2-vits' exactly when   *)
(* the learned path completed: the identifier names the path that produced  *)
(* the map.                                                                 *)
C7_DepthFallsBack ==
    ret.fn = "compute_depth_map" =>
        /\ ~ret.out.raised
        /\ (ret.out.model = MlModel) = (DEPTH_AVAILABLE /\ ret.arg.torch = "ok")
        /\ (ret.out.model = SimpleModel)
              = (~DEPTH_AVAILABLE \/ ret.arg.torch = "raise")
        /\ (ret.out.model = MlModel) = (ret.out.map = "depth_anything_v2")
        /\ (ret.out.model = SimpleModel) = (ret.out.map = "laplacian")

C7_Witness ==
    /\ ret.fn = "compute_depth_map"
    /\ DEPTH_AVAILABLE
    /\ ret.arg.torch = "raise"
    /\ ret.out.model = SimpleModel
    /\ ret.out.map = "laplacian"

(* C8: the depth estimator is invoked on behalf of normals at most once in *)
(* a run, and only when no depth map has been computed before; every        *)
(* normals map is derived from the depth map computed last, which stays     *)
(* the retained one.                                                        *)
C8_DepthRetained ==
    InLoop =>
        /\ Cardinality({i \in 1..Len(depth_calls) : depth_calls[i] = "normals"}) <= 1
        /\ \A i \in 1..Len(depth_calls) : depth_calls[i] = "normals" => i = 1
        /\ \A i \in 1..Len(normals_used) :
              /\ normals_used[i].depth = normals_used[i].computed
              /\ normals_used[i].depth >= 1
        /\ depth_map.id = Len(depth_calls)

C8_Witness ==
    /\ pc = "done"
    /\ requested_maps = <<"normals", "normals">>
    /\ depth_calls = <<"normals">>
    /\ Len(normals_used) = 2
    /\ KindsOf(results.maps) = <<"normals", "normals">>

(* C9: for every median m (a multiple of 1/2 in 0..255) the low threshold  *)
(* is floor(0.67 * m), the high threshold is floor(1.33 * m) clamped at     *)
(* 255, and 0 <= low <= high <= 255; the thresholds depend on the median    *)
(* alone.                                                                   *)
C9_AutoThresholds ==
    ret.fn = "compute_edges" =>
        /\ ret.out.low = (67 * ret.arg.median2) \div 200
        /\ ret.out.high = Min(255, (133 * ret.arg.median2) \div 200)
        /\ 0 <= ret.out.low
        /\ ret.out.low <= ret.out.high
        /\ ret.out.high <= 255

C9_Witness ==
    /\ ret.fn = "compute_edges"
    /\ ret.arg.median2 = 400
    /\ ret.out.low = 134
    /\ ret.out.high = 255

(* C10: an image with width or height <= 2 gets an all-background mask     *)
(* without the cut; on every other image the cut is invoked with an         *)
(* initialization rectangle that is non-degenerate and lies inside the      *)
(* image: x + width <= w and y + height <= h.                               *)
C10_RectInsideImage ==
    ret.fn = "compute_segmentation_mask" =>
        IF image.w <= 2 \/ image.h <= 2
        THEN ~ret.out.cut /\ ~ret.out.raised /\ ret.out.values = {0}
        ELSE /\ ret.out.cut
             /\ ret.out.rect.width >= 1
             /\ ret.out.rect.height >= 1
             /\ ret.out.rect.x + ret.out.rect.width <= image.w
             /\ ret.out.rect.y + ret.out.rect.height <= image.h

====
